---- MODULE Spec2Model ----
(***************************************************************************)
(* Verification model of the recovery / reconciliation scripts of          *)
(* POS_Scripts:                                                            *)
(*   - eod_corrector_based_on_inv.py : generate_corrected_eod              *)
(*   - malformedjsonfixer.py         : fix_json_file and its helpers       *)
(*                                                                         *)
(* Money is held in integer cents (the source holds two-decimal floats).   *)
(* An optional value (Python None / an absent key / an absent file) is a   *)
(* sequence of length 0 or 1: <<>> is "absent", <<v>> is "present, v".     *)
(***************************************************************************)
EXTENDS Integers, Sequences, FiniteSets, TLC

VARIABLES
    \* ---- eod_corrector_based_on_inv.py ----
    receipts_by_date,          \* date -> sequence of receipts read from Inv
    eod_reports_by_date,       \* date -> <<>> or <<data>> as loaded from End
    eodFiles,                  \* date -> <<>> or <<content>> of the End file on disk
    bakFiles,                  \* date -> <<>> or <<content>> of the ".bak" copy
    idx,                       \* position of the loop in sorted_dates
    last_transmission_number,  \* <<>> (None) or <<n>>
    corrected_files_count,
    rpc,                       \* where generate_corrected_eod stands
    \* ---- malformedjsonfixer.py : fix_json_file ----
    file,                      \* the content of the file at file_path
    prevFile,                  \* its content before the last call
    runs,                      \* calls of fix_json_file made so far
    result,                    \* what the last call did: "none", "False", "True", "raised"
    path,                      \* how the last call ended: "none", "fast", "full", "raised"
    fp,                        \* how binary floating point rounds a one-cent difference
    \* ---- malformedjsonfixer.py : _attempt_structural_fix_and_parse ----
    text,                      \* the text handed to the structural repair
    repaired,                  \* <<>> or <<what the repair returned>>
    \* ---- malformedjsonfixer.py : _robust_json_clean_string ----
    text_content,              \* the text handed to the sanitizer (code points)
    cleaned,                   \* <<>> or <<the text the sanitizer returned>>
    \* ---- malformedjsonfinder.py : the learning pass ----
    corpus,                    \* the .txt files in the order os.walk yields them
    learned,                   \* how many of them _learn_item_data has seen
    KNOWN_ITEM_DATA,           \* item code -> <<>> or <<entry>>
    \* ---- emptyoodcorrector.py : correct_end_files ----
    inv_daily_data,            \* day -> number of invoices of that day read from Inv
    end_files,                 \* the End files on disk, in the order of their numbers
    end_files_before,          \* the End files as they were when the run began
    epos,                      \* End files the loop has gone through
    last_valid_date,           \* <<>> (None) or <<day>>
    \* ---- fc4_old_eod_generator_based_on_inv.py ----
    invoices_by_date,          \* day -> number of invoices in the Inv folder
    eod_folder,                \* file number -> <<>> or <<summary>> in the End folder
    eod_folder_before,         \* the End folder as it was before the first run
    initial_eod_data,          \* <<>> (None) or <<summary>> read from 1.txt
    gi,                        \* the loop index i of generate_and_save_eods
    g_last_transmission_number,
    gpc,                       \* where the run stands
    restarts,                  \* how often the run was cut off and started again
    \* ---- receiptNo_reset_fixer.py : find_and_fix_reset ----
    inv_new_files,             \* the invoice files in numeric order: <<>> or <<totRcptNo>>
    inv_new_before,            \* the same files as they were before the run
    npos,                      \* files the loop has gone through
    last_valid_tot_rcpt_no     \* -1 until the first receipt number was read

rvars == <<receipts_by_date, eod_reports_by_date, eodFiles, bakFiles, idx,
           last_transmission_number, corrected_files_count, rpc>>

fvars == <<file, prevFile, runs, result, path, fp>>

svars == <<text, repaired>>

cvars == <<text_content, cleaned>>

lvars == <<corpus, learned, KNOWN_ITEM_DATA>>

evars == <<inv_daily_data, end_files, end_files_before, epos, last_valid_date>>

gvars == <<invoices_by_date, eod_folder, eod_folder_before, initial_eod_data, gi,
           g_last_transmission_number, gpc, restarts>>

nvars == <<inv_new_files, inv_new_before, npos, last_valid_tot_rcpt_no>>

vars == <<rvars, fvars, svars, cvars, lvars, evars, gvars, nvars>>

Abs(x) == IF x < 0 THEN -x ELSE x

RECURSIVE SumSeq(_)
SumSeq(s) == IF s = <<>> THEN 0 ELSE Head(s) + SumSeq(Tail(s))

(***************************************************************************)
(*                 eod_corrector_based_on_inv.py                           *)
(***************************************************************************)

\* Bounds of the reconciliation model.
MaxDates == 3
MaxReceipts == 1

Dates == 1..MaxDates

\* One invoice as process_backup_directory keeps it (line 65): the three
\* amounts generate_corrected_eod reads, in cents.  AmountsAreNumbers says
\* that float() accepts the text of each of them.
ReceiptChoices ==
    { [TotalTaxableAmount |-> 10000, TotalTaxAmount |-> 1600,
       TotalInvoiceAmount |-> 11600, AmountsAreNumbers |-> TRUE] }

\* An invoice one of whose amounts is a text such as "abc".
MalformedReceipt ==
    [TotalTaxableAmount |-> 10000, TotalTaxAmount |-> 0,
     TotalInvoiceAmount |-> 11600, AmountsAreNumbers |-> FALSE]

RECURSIVE SeqsUpTo(_, _)
SeqsUpTo(S, n) ==
    IF n = 0 THEN { <<>> }
    ELSE LET shorter == SeqsUpTo(S, n - 1)
         IN  shorter \cup { Append(s, x) : s \in { t \in shorter : Len(t) = n - 1 }, x \in S }

\* The count and amounts a summary file may hold: those of a day without
\* invoices, those of a day with one invoice, and a stale header whose total is
\* that of one invoice while its count, taxable and tax amounts are still zero.
StoredTotals ==
    { [count |-> 0, taxable |-> 0, tax |-> 0, total |-> 0],
      [count |-> 1, taxable |-> 10000, tax |-> 1600, total |-> 11600],
      [count |-> 0, taxable |-> 0, tax |-> 0, total |-> 11600] }

\* The transmission numbers a summary file may hold.
StoredTransmissionNumbers == 1..2

\* A summary (End) file with header h.
EodFile(h) == [HASH |-> <<"orig">>, EODSummaryHeader |-> h]

\* A summary (End) file as written by the fiscal device.
\* TransmissionIsNumber says that int() accepts the text of DateOfTransmission.
EodChoices ==
    { EodFile([NumberOfInvoicesSentOfTheDay |-> a.count,
               TotalTaxableAmountOfTheDay   |-> a.taxable,
               TotalTaxAmountOfTheDay       |-> a.tax,
               TotalInoviceAmountOfTheDay   |-> a.total,
               DateOfTransmission           |-> t,
               TransmissionIsNumber         |-> TRUE]) :
      a \in StoredTotals, t \in StoredTransmissionNumbers }

\* A summary file whose DateOfTransmission is a text such as "12a" or "".
MalformedEod ==
    EodFile([NumberOfInvoicesSentOfTheDay |-> 0,
             TotalTaxableAmountOfTheDay   |-> 0,
             TotalTaxAmountOfTheDay       |-> 0,
             TotalInoviceAmountOfTheDay   |-> 0,
             DateOfTransmission           |-> 0,
             TransmissionIsNumber         |-> FALSE])

\* The summary files of a run over a directory with malformed files.
MalformedRunEods ==
    { e \in EodChoices :
        /\ e.EODSummaryHeader.NumberOfInvoicesSentOfTheDay = 0
        /\ e.EODSummaryHeader.TotalInoviceAmountOfTheDay = 0
        /\ e.EODSummaryHeader.DateOfTransmission = 1 }
    \cup { MalformedEod }

\* sorted(set(receipts_by_date.keys()).union(eod_reports_by_date.keys()))
\* receipts_by_date is a defaultdict: a date is a key only if it has a receipt.
InAllDates(d) == receipts_by_date[d] # <<>> \/ eod_reports_by_date[d] # <<>>

RECURSIVE SortedFrom(_)
SortedFrom(d) ==
    IF d > MaxDates THEN <<>>
    ELSE IF InAllDates(d) THEN <<d>> \o SortedFrom(d + 1)
    ELSE SortedFrom(d + 1)

sorted_dates == SortedFrom(1)

\* Lines 131-135: the totals recomputed from the date's receipts.
correct_invoice_count(d) == Len(receipts_by_date[d])

RECURSIVE SumField(_, _)
SumField(rs, f) == IF rs = <<>> THEN 0 ELSE Head(rs)[f] + SumField(Tail(rs), f)

correct_taxable_amount(d) == SumField(receipts_by_date[d], "TotalTaxableAmount")
correct_tax_amount(d)     == SumField(receipts_by_date[d], "TotalTaxAmount")
correct_total_amount(d)   == SumField(receipts_by_date[d], "TotalInvoiceAmount")

\* Lines 127-128, 138-139.
original_eod_header(d) == eod_reports_by_date[d][1].EODSummaryHeader
eod_total_amount(d) == original_eod_header(d).TotalInoviceAmountOfTheDay
original_transmission_number(d) == original_eod_header(d).DateOfTransmission

\* Lines 133-135: float() of a text that is no number raises ValueError.
ReceiptsAreNumeric(d) ==
    \A i \in 1..Len(receipts_by_date[d]) : receipts_by_date[d][i].AmountsAreNumbers

\* Lines 133-139: the conversions raise; nothing in generate_corrected_eod
\* or in main catches the exception.
ConversionRaises(d) ==
    \/ ~ReceiptsAreNumeric(d)
    \/ ~original_eod_header(d).TransmissionIsNumber

\* Variant: a date inside a chain takes over the running number as it is.
new_transmission_number_NoCount(d, last) ==
    IF last = <<>> THEN original_transmission_number(d) ELSE last[1]

\* Variant: the stored number is always kept.
new_transmission_number_Kept(d, last) == original_transmission_number(d)

\* Lines 141-147: the first date (or the first after a gap) keeps its own
\* number, every other date gets last + the count of the CURRENT date.
new_transmission_number(d, last) ==
    IF last = <<>> THEN original_transmission_number(d)
    ELSE last[1] + correct_invoice_count(d)

\* Lines 153-154: only the total amount and the transmission number are compared.
discrepancy_found(d, last) ==
    \/ Abs(correct_total_amount(d) - eod_total_amount(d)) > 1
    \/ new_transmission_number(d, last) # original_transmission_number(d)

\* Lines 163-178: the corrected file content.
new_hash(d) == <<"A", d, correct_invoice_count(d)>>

corrected_eod_full_data(d, tn) ==
    [HASH |-> new_hash(d),
     EODSummaryHeader |->
        [original_eod_header(d) EXCEPT
           !.NumberOfInvoicesSentOfTheDay = correct_invoice_count(d),
           !.TotalTaxableAmountOfTheDay   = correct_taxable_amount(d),
           !.TotalTaxAmountOfTheDay       = correct_tax_amount(d),
           !.TotalInoviceAmountOfTheDay   = correct_total_amount(d),
           !.DateOfTransmission           = tn]]

RInit ==
    /\ receipts_by_date \in [Dates -> SeqsUpTo(ReceiptChoices, MaxReceipts)]
    /\ eodFiles \in [Dates -> { <<>> } \cup { <<e>> : e \in EodChoices }]
    /\ eod_reports_by_date = eodFiles
    /\ bakFiles = [d \in Dates |-> <<>>]
    /\ idx = 1
    /\ last_transmission_number = <<>>
    /\ corrected_files_count = 0
    /\ rpc = "loop"

\* A backup directory in which invoices and summaries may be malformed.
RInitMalformed ==
    /\ receipts_by_date
         \in [Dates -> SeqsUpTo(ReceiptChoices \cup {MalformedReceipt}, MaxReceipts)]
    /\ eodFiles \in [Dates -> { <<>> } \cup { <<e>> : e \in MalformedRunEods }]
    /\ eod_reports_by_date = eodFiles
    /\ bakFiles = [d \in Dates |-> <<>>]
    /\ idx = 1
    /\ last_transmission_number = <<>>
    /\ corrected_files_count = 0
    /\ rpc = "loop"

curDate == sorted_dates[idx]

\* Variant: a date without a summary is skipped and the chain goes on.
SkipNoEod_KeepsChain ==
    /\ rpc = "loop"
    /\ idx <= Len(sorted_dates)
    /\ eod_reports_by_date[curDate] = <<>>
    /\ idx' = idx + 1
    /\ UNCHANGED <<receipts_by_date, eod_reports_by_date, eodFiles, bakFiles,
                   last_transmission_number, corrected_files_count, rpc>>

\* Lines 117-125: a date without a summary is skipped and resets the chain.
SkipNoEod ==
    /\ rpc = "loop"
    /\ idx <= Len(sorted_dates)
    /\ eod_reports_by_date[curDate] = <<>>
    /\ last_transmission_number' = <<>>
    /\ idx' = idx + 1
    /\ UNCHANGED <<receipts_by_date, eod_reports_by_date, eodFiles, bakFiles,
                   corrected_files_count, rpc>>

\* Lines 127-156, 190-191: compute, advance the chain, decide.
ProcessDate ==
    /\ rpc = "loop"
    /\ idx <= Len(sorted_dates)
    /\ eod_reports_by_date[curDate] # <<>>
    /\ IF ConversionRaises(curDate)
       THEN /\ rpc' = "raised"
            /\ UNCHANGED <<idx, last_transmission_number>>
       ELSE LET tn == new_transmission_number(curDate, last_transmission_number)
            IN  /\ last_transmission_number' = <<tn>>
                /\ IF discrepancy_found(curDate, last_transmission_number)
                   THEN rpc' = "backup" /\ idx' = idx
                   ELSE rpc' = "loop" /\ idx' = idx + 1
    /\ UNCHANGED <<receipts_by_date, eod_reports_by_date, eodFiles, bakFiles,
                   corrected_files_count>>

\* Variant: no copy of the file is made before it is rewritten.
Backup_Skipped ==
    /\ rpc = "backup"
    /\ rpc' = "write"
    /\ UNCHANGED <<receipts_by_date, eod_reports_by_date, eodFiles, bakFiles, idx,
                   last_transmission_number, corrected_files_count>>

\* Lines 159-160: shutil.copyfile(eod_filepath, eod_filepath + ".bak")
Backup ==
    /\ rpc = "backup"
    /\ bakFiles' = [bakFiles EXCEPT ![curDate] = eodFiles[curDate]]
    /\ rpc' = "write"
    /\ UNCHANGED <<receipts_by_date, eod_reports_by_date, eodFiles, idx,
                   last_transmission_number, corrected_files_count>>

\* Lines 180-182: json.dump of the corrected data over the End file.
\* last_transmission_number already holds this date's new number (line 150).
WriteCorrected ==
    /\ rpc = "write"
    /\ eodFiles' = [eodFiles EXCEPT ![curDate] =
                       <<corrected_eod_full_data(curDate, last_transmission_number[1])>>]
    /\ rpc' = "remove"
    /\ UNCHANGED <<receipts_by_date, eod_reports_by_date, bakFiles, idx,
                   last_transmission_number, corrected_files_count>>

\* What a write that failed leaves of an End file: an empty or partial text.
PartialFile ==
    EodFile([NumberOfInvoicesSentOfTheDay |-> 0,
             TotalTaxableAmountOfTheDay   |-> 0,
             TotalTaxAmountOfTheDay       |-> 0,
             TotalInoviceAmountOfTheDay   |-> 0,
             DateOfTransmission           |-> 0,
             TransmissionIsNumber         |-> FALSE])

\* Lines 180-182, 188-189: open() or json.dump raises; the exception is
\* logged, the backup stays, and the loop goes on with the next date.
WriteFails ==
    /\ rpc = "write"
    /\ eodFiles' = [eodFiles EXCEPT ![curDate] = <<PartialFile>>]
    /\ idx' = idx + 1
    /\ rpc' = "loop"
    /\ UNCHANGED <<receipts_by_date, eod_reports_by_date, bakFiles,
                   last_transmission_number, corrected_files_count>>

\* Lines 184-187: os.remove(backup_filepath); corrected_files_count += 1
RemoveBackup ==
    /\ rpc = "remove"
    /\ bakFiles' = [bakFiles EXCEPT ![curDate] = <<>>]
    /\ corrected_files_count' = corrected_files_count + 1
    /\ idx' = idx + 1
    /\ rpc' = "loop"
    /\ UNCHANGED <<receipts_by_date, eod_reports_by_date, eodFiles,
                   last_transmission_number>>

\* Line 193: the loop is over.
Finish ==
    /\ rpc = "loop"
    /\ idx > Len(sorted_dates)
    /\ rpc' = "done"
    /\ UNCHANGED <<receipts_by_date, eod_reports_by_date, eodFiles, bakFiles, idx,
                   last_transmission_number, corrected_files_count>>

RNext == SkipNoEod \/ ProcessDate \/ Backup \/ WriteCorrected \/ RemoveBackup \/ Finish

(***************************************************************************)
(*                 malformedjsonfixer.py : fix_json_file                   *)
(*                                                                         *)
(* The text of a file is described by what the code can observe of it:     *)
(*   ctrl     whether it holds characters _robust_json_clean_string drops  *)
(*            ("none"; "high": 0x7F-0x9F, legal inside a JSON string;      *)
(*            "c0": a raw control character below 0x20 inside a string),   *)
(*   parse    what json.loads makes of the cleaned text ("object",         *)
(*            "nonobject", or broken: "broken_top" when the longest        *)
(*            parsable prefix still holds the top-level keys but not the   *)
(*            item list, "broken_none" when only {} is left),              *)
(*   top, other, receipt, itemList   the keys and values written in it.    *)
(* Strings are sequences of code points.  A number is [isnum, v]; the      *)
(* amounts totAmt, taxblAmt, taxAmt and the totals are integers (cents).   *)
(***************************************************************************)

\* Bounds of the repair model.
MaxItems == 2
MaxRuns == 2

\* abs(x - y) > 0.01 and abs(x - y) < 0.01 (lines 300-302, 548-591), in cents.
Tolerance == 1
\* round(tot / 1.16, 2) (lines 286, 539): tot * 100 / 116 in cents.
TaxDivisor == 116

Num(n) == [isnum |-> TRUE, v |-> n]
NonNumeric == [isnum |-> FALSE, v |-> 0]

Get(o, dflt) == IF o = <<>> THEN dflt ELSE o[1]

\* "KENYATEST", and lines 6-11.
KENYATEST == <<75, 69, 78, 89, 65, 84, 69, 83, 84>>
KENYATEST1_CORRECTION ==
    [itemCd    |-> KENYATEST \o <<49>>,
     itemClsCd |-> <<57, 57, 48, 49, 48, 48, 48, 48>>,
     itemNm    |-> <<72, 65, 82, 68, 87, 65, 82, 69, 32, 73, 84, 69, 77, 83>>,
     bcd       |-> <<>>]

\* Lines 62-64.
is_printable_ascii(str) == \A i \in 1..Len(str) : 32 <= str[i] /\ str[i] <= 126

\* str.startswith(prefix)
StartsWith(str, prefix) ==
    /\ Len(str) >= Len(prefix)
    /\ SubSeq(str, 1, Len(prefix)) = prefix

\* abs(a - b) > 0.01 on floats: for two amounts one cent apart the binary
\* subtraction gives a little more than, exactly, or a little less than 0.01
\* (100.01 - 100.0, 0.02 - 0.01, 0.03 - 0.02); fp is which of the three.
Far(a, b) ==
    \/ Abs(a - b) > Tolerance
    \/ (Abs(a - b) = Tolerance /\ fp = "above")

\* abs(a - b) < 0.01 on floats.
Near(a, b) ==
    \/ Abs(a - b) < Tolerance
    \/ (Abs(a - b) = Tolerance /\ fp = "below")

\* round(tot / 1.16, 2) for tot >= 0, in cents: 25 * tot / 29 rounded to the
\* nearest integer (it is never half-way between two integers).
RoundTaxable(tot) == (200 * tot + TaxDivisor) \div (2 * TaxDivisor)

\* Line 281 and line 531.
ValidPrcQty(prc, qty) == prc.isnum /\ prc.v >= 0 /\ qty.isnum /\ qty.v >= 0

\* Lines 282-287: the recomputation of the fast-path check.
TempItemCalc(prc, qty, tax_ty_cd) ==
    LET tot == prc.v * qty.v
    IN  IF tax_ty_cd = "B" /\ tot > 0
        THEN [tot |-> tot, taxbl |-> RoundTaxable(tot), tax |-> tot - RoundTaxable(tot)]
        ELSE [tot |-> tot, taxbl |-> tot, tax |-> 0]

\* Lines 532-546: the recomputation of step 3.
ItemCalc(prc, qty, tax_ty_cd) ==
    LET tot == prc.v * qty.v
    IN  IF tax_ty_cd = "B"
        THEN IF tot > 0
             THEN [tot |-> tot, taxbl |-> RoundTaxable(tot), tax |-> tot - RoundTaxable(tot)]
             ELSE [tot |-> tot, taxbl |-> 0, tax |-> 0]
        ELSE [tot |-> tot, taxbl |-> tot, tax |-> 0]

\* Lines 270-296: the totals the fast-path check recomputes.
RECURSIVE TempTotals(_)
TempTotals(items) ==
    IF items = <<>> THEN [cnt |-> 0, taxbl |-> 0, tax |-> 0, tot |-> 0]
    ELSE LET item == Head(items)
             r    == TempTotals(Tail(items))
             prc  == Get(item.prc, Num(0))
             qty  == Get(item.qty, Num(0))
             c    == TempItemCalc(prc, qty, Get(item.taxTyCd, "B"))
         IN  IF ValidPrcQty(prc, qty)
             THEN [cnt |-> r.cnt + 1, taxbl |-> r.taxbl + c.taxbl,
                   tax |-> r.tax + c.tax, tot |-> r.tot + c.tot]
             ELSE [r EXCEPT !.cnt = r.cnt + 1]

\* Lines 298-303.
is_logically_consistent(data) ==
    LET t == TempTotals(Get(data.itemList, <<>>))
    IN  /\ data.top.totItemCnt = <<t.cnt>>
        /\ Near(Get(data.top.totTaxblAmt, 0), t.taxbl)
        /\ Near(Get(data.top.totTaxAmt, 0), t.tax)
        /\ Near(Get(data.top.totAmt, 0), t.tot)

NoTop == [totItemCnt |-> <<>>, totTaxblAmt |-> <<>>, totTaxAmt |-> <<>>, totAmt |-> <<>>]
EmptyData == [top |-> NoTop, other |-> FALSE, receipt |-> "absent", itemList |-> <<>>]

\* Lines 268 and 314 (json.loads, _attempt_structural_fix_and_parse): the
\* dictionary obtained from the cleaned text.
ParsedData(f) ==
    IF f.parse = "object"
    THEN [top |-> f.top, other |-> f.other, receipt |-> f.receipt, itemList |-> f.itemList]
    ELSE IF f.parse = "broken_top"
    THEN [top |-> f.top, other |-> f.other, receipt |-> f.receipt, itemList |-> <<>>]
    ELSE EmptyData

\* Lines 256-262: the cleaned text differs from the text read.
Step1(f) ==
    [file_modified |-> f.ctrl # "none", had_char_corruption_issue |-> f.ctrl # "none"]

\* Variant: a file that parses is never left alone.
FastPathCheck_NoSkip(f, had_char_corruption_issue) ==
    IF f.parse = "nonobject" THEN "raise" ELSE "continue"

\* Lines 267-310: "raise" (.get on a value that is no dict, line 276),
\* "skip" (return False at line 308) or "continue".
FastPathCheck(f, had_char_corruption_issue) ==
    IF f.parse = "nonobject" THEN "raise"
    ELSE IF f.parse # "object" THEN "continue"
    ELSE IF ~had_char_corruption_issue /\ is_logically_consistent(ParsedData(f))
    THEN "skip"
    ELSE "continue"

\* Lines 314-320.
Step2(f, L) ==
    LET data == ParsedData(f)
        structural_fix_applied == f.parse # "object"
    IN  [data |-> data,
         file_modified |-> L.file_modified \/ structural_fix_applied,
         had_char_corruption_issue |->
             L.had_char_corruption_issue \/ (structural_fix_applied /\ data = EmptyData)]

\* Lines 362-372 for one key: the value found in the raw text wins, a key
\* found nowhere gets its default.
RecoverField(dataValue, recovered, dflt) ==
    IF recovered # <<>> THEN recovered
    ELSE IF dataValue = <<>> THEN <<dflt>>
    ELSE dataValue

\* Lines 331-372: every expected top-level key but itemList.
Step2_6(f, L) ==
    LET d == L.data
        top == [k \in DOMAIN d.top |-> RecoverField(d.top[k], f.top[k], 0)]
        receipt == IF f.receipt # "absent" THEN f.receipt
                   ELSE IF d.receipt = "absent" THEN "empty"
                   ELSE d.receipt
    IN  [L EXCEPT
           !.data = [d EXCEPT !.top = top, !.other = TRUE, !.receipt = receipt],
           !.file_modified = L.file_modified \/ top # d.top \/ ~d.other
                               \/ receipt # d.receipt]

\* Lines 375-391: an empty receipt is searched for in the raw text again.
StepReceipt(f, L) ==
    IF L.data.receipt # "full" /\ f.receipt # "absent"
    THEN [L EXCEPT !.data.receipt = f.receipt, !.file_modified = TRUE]
    ELSE L

item_id(item) == <<item.itemSeq, item.itemCd>>

\* Lines 403-410, 428-438: keep an item that has an itemSeq and whose id is new.
RECURSIVE Consolidate(_, _)
Consolidate(items, acc) ==
    IF items = <<>> THEN acc
    ELSE LET item == Head(items)
         IN  IF item.itemSeq # <<>> /\ item_id(item) \notin acc.ids
             THEN Consolidate(Tail(items),
                              [final |-> Append(acc.final, item),
                               ids |-> acc.ids \cup {item_id(item)}])
             ELSE Consolidate(Tail(items), acc)

HasItemSeq(item) == item.itemSeq # <<>>

\* The item {} forced at line 452.
EmptyItem ==
    [itemSeq |-> <<>>, itemCd |-> <<>>, itemClsCd |-> <<>>, itemNm |-> <<>>,
     bcd |-> <<>>, prc |-> <<>>, qty |-> <<>>, taxTyCd |-> <<>>,
     taxblAmt |-> <<>>, taxAmt |-> <<>>, totAmt |-> <<>>, rest |-> FALSE]

\* Lines 396-464: the item list is rebuilt from the parsed data and from the
\* item-shaped fragments of the raw text.
Step2_7(f, L) ==
    LET d == L.data
        fromParsed == Consolidate(Get(d.itemList, <<>>), [final |-> <<>>, ids |-> {}])
        original_had_itemlist_marker == f.itemList # <<>>
        raw_item_candidates == SelectSeq(Get(f.itemList, <<>>), HasItemSeq)
        fromRaw == Consolidate(raw_item_candidates, fromParsed)
        recovered == fromRaw.final # fromParsed.final
        forced == original_had_itemlist_marker /\ fromRaw.final = <<>>
        final == IF ~original_had_itemlist_marker THEN fromParsed.final
                 ELSE IF forced THEN <<EmptyItem>>
                 ELSE fromRaw.final
        defaulted == ~original_had_itemlist_marker /\ fromParsed.final = <<>>
                       /\ d.itemList = <<>>
    IN  [data |-> [d EXCEPT !.itemList = <<final>>],
         file_modified |-> L.file_modified \/ recovered \/ forced \/ defaulted,
         had_char_corruption_issue |-> L.had_char_corruption_issue \/ recovered \/ forced]

\* Lines 486-506: setdefault of every item key.
ItemDefaults(item_raw, i) ==
    [itemSeq   |-> <<Get(item_raw.itemSeq, i)>>,
     itemCd    |-> <<Get(item_raw.itemCd, <<>>)>>,
     itemClsCd |-> <<Get(item_raw.itemClsCd, <<>>)>>,
     itemNm    |-> <<Get(item_raw.itemNm, <<>>)>>,
     bcd       |-> <<Get(item_raw.bcd, <<>>)>>,
     prc       |-> <<Get(item_raw.prc, Num(0))>>,
     qty       |-> <<Get(item_raw.qty, Num(0))>>,
     taxTyCd   |-> <<Get(item_raw.taxTyCd, "B")>>,
     taxblAmt  |-> <<Get(item_raw.taxblAmt, 0)>>,
     taxAmt    |-> <<Get(item_raw.taxAmt, 0)>>,
     totAmt    |-> <<Get(item_raw.totAmt, 0)>>,
     rest      |-> TRUE]

\* Lines 509-516.
should_correct_logical_fields(item, had_char_corruption_issue) ==
    LET current_item_cd == item.itemCd[1]
        current_item_cls_cd == item.itemClsCd[1]
    IN  /\ (had_char_corruption_issue \/ ~is_printable_ascii(current_item_cd))
        /\ \/ StartsWith(current_item_cd, KENYATEST)
           \/ current_item_cls_cd = KENYATEST1_CORRECTION.itemClsCd
           \/ ~is_printable_ascii(current_item_cd)

\* Lines 518-524.
LogicalCorrection(item, had_char_corruption_issue) ==
    IF should_correct_logical_fields(item, had_char_corruption_issue)
    THEN [item EXCEPT !.itemCd    = <<KENYATEST1_CORRECTION.itemCd>>,
                      !.itemClsCd = <<KENYATEST1_CORRECTION.itemClsCd>>,
                      !.itemNm    = <<KENYATEST1_CORRECTION.itemNm>>,
                      !.bcd       = <<KENYATEST1_CORRECTION.bcd>>]
    ELSE item

\* Lines 548-561: a stored amount is overwritten when it is off by more than 0.01.
Overwrite(stored, calculated) ==
    IF Far(stored, calculated) THEN calculated ELSE stored

\* Lines 527-561: the item with its three amounts recomputed.
RecalcItem(item) ==
    LET prc == item.prc[1]
        qty == item.qty[1]
        c == ItemCalc(prc, qty, item.taxTyCd[1])
    IN  IF ValidPrcQty(prc, qty)
        THEN [item EXCEPT !.totAmt   = <<Overwrite(item.totAmt[1], c.tot)>>,
                          !.taxblAmt = <<Overwrite(item.taxblAmt[1], c.taxbl)>>,
                          !.taxAmt   = <<Overwrite(item.taxAmt[1], c.tax)>>]
        ELSE item

\* Lines 563-567: what the item adds to the calculated totals.
ItemContribution(item) ==
    LET prc == item.prc[1]
        qty == item.qty[1]
    IN  IF ValidPrcQty(prc, qty)
        THEN ItemCalc(prc, qty, item.taxTyCd[1])
        ELSE [tot |-> 0, taxbl |-> 0, tax |-> 0]

\* Lines 475-568: the loop over the item list; i is the 1-based position.
RECURSIVE ProcessItems(_, _, _)
ProcessItems(items, i, had_char_corruption_issue) ==
    IF items = <<>>
    THEN [list |-> <<>>, cnt |-> 0, taxbl |-> 0, tax |-> 0, tot |-> 0]
    ELSE LET item == LogicalCorrection(ItemDefaults(Head(items), i),
                                       had_char_corruption_issue)
             c == ItemContribution(item)
             r == ProcessItems(Tail(items), i + 1, had_char_corruption_issue)
         IN  [list |-> <<RecalcItem(item)>> \o r.list,
              cnt |-> r.cnt + 1,
              taxbl |-> r.taxbl + c.taxbl,
              tax |-> r.tax + c.tax,
              tot |-> r.tot + c.tot]

\* Lines 570-594: the four top-level totals.
CorrectTotals(top, p) ==
    [totItemCnt  |-> IF top.totItemCnt # <<p.cnt>> THEN <<p.cnt>> ELSE top.totItemCnt,
     totTaxblAmt |-> <<Overwrite(Get(top.totTaxblAmt, 0), p.taxbl)>>,
     totTaxAmt   |-> <<Overwrite(Get(top.totTaxAmt, 0), p.tax)>>,
     totAmt      |-> <<Overwrite(Get(top.totAmt, 0), p.tot)>>]

\* Lines 467-594: step 3 runs only when an earlier stage set file_modified.
Step3Guard(L) == L.file_modified

Step3(L) ==
    IF Step3Guard(L)
    THEN LET p == ProcessItems(L.data.itemList[1], 1, L.had_char_corruption_issue)
         IN  [L EXCEPT !.data.itemList = <<p.list>>,
                       !.data.top = CorrectTotals(L.data.top, p),
                       !.file_modified = TRUE]
    ELSE L

\* Lines 600-601: json.dump writes plain ASCII that parses to the same object.
Serialize(data) ==
    [ctrl |-> "none", parse |-> "object", top |-> data.top, other |-> data.other,
     receipt |-> data.receipt, itemList |-> data.itemList]

\* The call reporting a change although no stage set file_modified.
fix_json_file_ReportsUnmodified(f) ==
    LET L1 == Step1(f)
        check == FastPathCheck(f, L1.had_char_corruption_issue)
        L == Step3(Step2_7(f, StepReceipt(f, Step2_6(f, Step2(f, L1)))))
    IN  IF check = "raise" THEN [result |-> "raised", path |-> "raised", content |-> f]
        ELSE IF check = "skip" THEN [result |-> "False", path |-> "fast", content |-> f]
        ELSE [result |-> "True", path |-> "full", content |-> Serialize(L.data)]

\* Lines 226-608.
fix_json_file(f) ==
    LET L1 == Step1(f)
        check == FastPathCheck(f, L1.had_char_corruption_issue)
        L == Step3(Step2_7(f, StepReceipt(f, Step2_6(f, Step2(f, L1)))))
    IN  IF check = "raise" THEN [result |-> "raised", path |-> "raised", content |-> f]
        ELSE IF check = "skip" THEN [result |-> "False", path |-> "fast", content |-> f]
        ELSE IF L.file_modified
        THEN [result |-> "True", path |-> "full", content |-> Serialize(L.data)]
        ELSE [result |-> "False", path |-> "full", content |-> f]

(***************************************************************************)
(* Inputs of the repair model.                                             *)
(***************************************************************************)

\* The item code "X1", class code "5", name "N" of an ordinary item.
OrdinaryCd == <<88, 49>>
OrdinaryClsCd == <<53>>
OrdinaryNm == <<78>>

\* The stored (totAmt, taxblAmt, taxAmt) of an item: 0.07 / 0.06 / 0.01 is
\* right for a B item of price 0.07, 0.07 / 0.06 / 0.02 is one cent off.
StoredItemAmounts ==
    { [totAmt |-> 7, taxblAmt |-> 6, taxAmt |-> 1],
      [totAmt |-> 7, taxblAmt |-> 6, taxAmt |-> 2] }

MakeItem(prc, taxTyCd, a) ==
    [itemSeq |-> <<>>, itemCd |-> <<OrdinaryCd>>, itemClsCd |-> <<OrdinaryClsCd>>,
     itemNm |-> <<OrdinaryNm>>, bcd |-> << <<>> >>, prc |-> <<prc>>, qty |-> <<Num(1)>>,
     taxTyCd |-> <<taxTyCd>>, taxblAmt |-> <<a.taxblAmt>>, taxAmt |-> <<a.taxAmt>>,
     totAmt |-> <<a.totAmt>>, rest |-> TRUE]

\* Items of price 0.07 of both tax types, and B items whose price is negative
\* or not a number, with stored amounts 0.07 / 0.06 / 0.05.
ItemChoices ==
    { MakeItem(Num(7), t, a) : t \in {"A", "B"}, a \in StoredItemAmounts }
    \cup { MakeItem(p, "B", [totAmt |-> 7, taxblAmt |-> 6, taxAmt |-> 5]) :
             p \in {Num(-7), NonNumeric} }

\* The item lists of a device file: item i carries itemSeq i.
Numbered(items) == [i \in 1..Len(items) |-> [items[i] EXCEPT !.itemSeq = <<i>>]]
ItemListChoices == { Numbered(l) : l \in SeqsUpTo(ItemChoices, MaxItems) }

\* The four totals written in the text: none, those of one right B item,
\* the same with totAmt one cent off, those of two right B items.
TopChoices ==
    { NoTop,
      [totItemCnt |-> <<1>>, totTaxblAmt |-> <<6>>, totTaxAmt |-> <<1>>, totAmt |-> <<7>>],
      [totItemCnt |-> <<1>>, totTaxblAmt |-> <<6>>, totTaxAmt |-> <<1>>, totAmt |-> <<8>>],
      [totItemCnt |-> <<2>>, totTaxblAmt |-> <<12>>, totTaxAmt |-> <<2>>, totAmt |-> <<14>>] }

\* The character and parse conditions of a text.
TextChoices ==
    { [ctrl |-> "none", parse |-> "object"],
      [ctrl |-> "high", parse |-> "object"],
      [ctrl |-> "c0", parse |-> "object"],
      [ctrl |-> "none", parse |-> "broken_top"],
      [ctrl |-> "none", parse |-> "broken_none"],
      [ctrl |-> "c0", parse |-> "broken_none"] }

\* A text that parses to a JSON value that is no object.
NonObjectFile ==
    [ctrl |-> "none", parse |-> "nonobject", top |-> NoTop, other |-> FALSE,
     receipt |-> "absent", itemList |-> <<>>]

FileChoices ==
    { [ctrl |-> t.ctrl, parse |-> t.parse, top |-> top, other |-> TRUE,
       receipt |-> r, itemList |-> il] :
        t \in TextChoices, top \in TopChoices, r \in {"absent", "empty", "full"},
        il \in { <<>> } \cup { <<l>> : l \in ItemListChoices } }
    \cup { NonObjectFile }

\* The item code "C" followed by e-acute (written as an escape or as one
\* latin-1 byte, it survives the cleaning), and the barcode "-".
AccentedCd == <<67, 233>>
DashBcd == <<45>>

\* Items that differ in what identifies and describes them: with or without
\* itemSeq 1, an ordinary, an accented or the reference item code, an empty
\* or a non-alphanumeric barcode; the amounts are those of a right B item.
MetaItemChoices ==
    { [MakeItem(Num(7), "B", [totAmt |-> 7, taxblAmt |-> 6, taxAmt |-> 1])
         EXCEPT !.itemSeq = seq, !.itemCd = <<cd>>, !.bcd = <<bcd>>] :
        seq \in { <<>>, <<1>> },
        cd \in { OrdinaryCd, AccentedCd, KENYATEST1_CORRECTION.itemCd },
        bcd \in { <<>>, DashBcd } }

\* Files whose items come from MetaItemChoices, with or without the
\* top-level keys other than the totals.
MetaFileChoices ==
    { [ctrl |-> t.ctrl, parse |-> t.parse, top |-> top, other |-> o,
       receipt |-> r, itemList |-> il] :
        t \in TextChoices,
        top \in { NoTop,
                  [totItemCnt |-> <<1>>, totTaxblAmt |-> <<6>>,
                   totTaxAmt |-> <<1>>, totAmt |-> <<7>>] },
        o \in BOOLEAN,
        r \in {"absent", "empty", "full"},
        il \in { <<>> } \cup { <<l>> : l \in SeqsUpTo(MetaItemChoices, MaxItems) } }

RIdle ==
    /\ receipts_by_date = <<>>
    /\ eod_reports_by_date = <<>>
    /\ eodFiles = <<>>
    /\ bakFiles = <<>>
    /\ idx = 0
    /\ last_transmission_number = <<>>
    /\ corrected_files_count = 0
    /\ rpc = "idle"

FIdle ==
    /\ file = <<>>
    /\ prevFile = <<>>
    /\ runs = 0
    /\ result = "none"
    /\ path = "none"
    /\ fp = "exact"

FInit ==
    /\ file \in FileChoices
    /\ prevFile = file
    /\ runs = 0
    /\ result = "none"
    /\ path = "none"
    /\ fp \in {"below", "exact", "above"}

FInitMeta ==
    /\ file \in MetaFileChoices
    /\ prevFile = file
    /\ runs = 0
    /\ result = "none"
    /\ path = "none"
    /\ fp = "exact"

\* One call of fix_json_file(file_path).
FixJsonFile ==
    /\ runs < MaxRuns
    /\ result # "raised"
    /\ LET r == fix_json_file(file)
       IN  /\ file' = r.content
           /\ result' = r.result
           /\ path' = r.path
    /\ prevFile' = file
    /\ runs' = runs + 1
    /\ UNCHANGED fp

(***************************************************************************)
(*        malformedjsonfixer.py : _attempt_structural_fix_and_parse        *)
(*                                                                         *)
(* A text is described by its length after strip(), by what json.loads     *)
(* makes of it ("object", "nonobject", "fail") and, for each prefix        *)
(* text[:i], by the one closing of common_closings (0: none) that makes    *)
(* it parse.                                                               *)
(***************************************************************************)

\* Bound on the length of a text.
MaxLen == 7

\* Line 139.
trim_steps == <<500, 200, 100, 50, 20, 10, 5, 1>>

\* Line 145: } , ]} , "]} , }]}
common_closings == << <<125>>, <<93, 125>>, <<34, 93, 125>>, <<125, 93, 125>> >>

\* The shortest prefixes each closing can complete: { , {"":[ , {"":[" , {"":[{
ShortestPrefix == <<1, 5, 6, 6>>

\* len("{}"), the initial longest_valid_prefix of line 135.
LenEmptyObject == Len(<<123, 125>>)

ClosingLen(c) == Len(common_closings[c])

\* A prefix that needs a longer closing is nested deeper: a later prefix
\* with a shorter closing is longer by at least the difference.
Realizable(n, closeOf) ==
    /\ \A i \in 1..n :
         closeOf[i] # 0 => i >= ShortestPrefix[closeOf[i]]
    /\ \A i, j \in 1..n :
         (i < j /\ closeOf[i] # 0 /\ closeOf[j] # 0)
            => j - i >= ClosingLen(closeOf[i]) - ClosingLen(closeOf[j])

NoClosing(n) == [i \in 1..n |-> 0]

StructTexts ==
    UNION { { [len |-> n, direct |-> "fail", closeOf |-> c] :
                c \in { f \in [1..n -> 0..4] : Realizable(n, f) } } :
            n \in 0..MaxLen }
    \cup { [len |-> n, direct |-> k, closeOf |-> NoClosing(n)] :
             n \in 1..MaxLen, k \in {"object", "nonobject"} }

\* Line 150: json.loads(current_attempt_text[:i] + suffix) succeeds for a suffix.
Parses(t, i) == i >= 1 /\ t.closeOf[i] # 0

\* len(test_string) of line 151.
TestLen(t, i) == i + ClosingLen(t.closeOf[i])

\* Line 142: range(len(current_attempt_text), -1, -step).
Grid(n, step) == { i \in 0..n : (n - i) % step = 0 }

\* Lines 142-155 for one step: the prefixes whose test string can replace "{}".
Candidates(t, step) ==
    { i \in Grid(t.len, step) : Parses(t, i) /\ TestLen(t, i) > LenEmptyObject }

\* Lines 151-152: the longest test string wins, the first one found (the
\* longer prefix) among equally long ones.
BestIn(t, step) ==
    CHOOSE i \in Candidates(t, step) :
        \A j \in Candidates(t, step) :
            \/ TestLen(t, j) < TestLen(t, i)
            \/ (TestLen(t, j) = TestLen(t, i) /\ j <= i)

\* Lines 141, 156-157: the first step of trim_steps that found a prefix, 0 if none.
RECURSIVE FirstStep(_, _)
FirstStep(t, k) ==
    IF k > Len(trim_steps) THEN 0
    ELSE IF Candidates(t, trim_steps[k]) # {} THEN k
    ELSE FirstStep(t, k + 1)

\* Lines 119-171.  kind says where the data comes from: the direct parse,
\* text[:prefixLen] plus a closing, or the initial "{}".
attempt_structural_fix_and_parse(t) ==
    IF t.direct # "fail"
    THEN [kind |-> "direct", isObject |-> t.direct = "object",
          prefixLen |-> t.len, modified |-> FALSE]
    ELSE LET k == FirstStep(t, 1)
         IN  IF k = 0
             THEN [kind |-> "empty", isObject |-> TRUE, prefixLen |-> 0,
                   modified |-> TRUE]
             ELSE [kind |-> "prefix", isObject |-> TRUE,
                   prefixLen |-> BestIn(t, trim_steps[k]), modified |-> TRUE]

SIdle ==
    /\ text = <<>>
    /\ repaired = <<>>

SInit ==
    /\ text \in StructTexts
    /\ repaired = <<>>

\* One call of _attempt_structural_fix_and_parse(text_content).
AttemptStructuralFix ==
    /\ text # <<>>
    /\ repaired = <<>>
    /\ repaired' = <<attempt_structural_fix_and_parse(text)>>
    /\ UNCHANGED text

(***************************************************************************)
(*                     _robust_json_clean_string                           *)
(*                                                                         *)
(* A text is a sequence of code points (the file is decoded as latin-1, so *)
(* every byte is one character).                                           *)
(***************************************************************************)

MaxText == 4

\* C0 (0x00-0x1F), C1 (0x80-0x9F) and DEL (0x7F): the test of lines 90 and 104.
IsControl(c) == (0 <= c /\ c <= 31) \/ (128 <= c /\ c <= 159) \/ c = 127

\* The loop's state before the first character (lines 70-72).
CleanStart == [cleaned_chars |-> <<>>, in_string |-> FALSE, escaped |-> FALSE]

\* The body of the escaped branch with the escape flag ignored.
CleanChar_NoEscape(st, c) ==
    IF st.in_string
    THEN IF c = 92
         THEN [st EXCEPT !.cleaned_chars = Append(@, c)]
         ELSE IF c = 34
         THEN [st EXCEPT !.cleaned_chars = Append(@, c), !.in_string = FALSE]
         ELSE IF IsControl(c)
         THEN st
         ELSE [st EXCEPT !.cleaned_chars = Append(@, c)]
    ELSE IF c = 34
         THEN [st EXCEPT !.cleaned_chars = Append(@, c), !.in_string = TRUE]
         ELSE IF c \in {32, 9, 10, 13}
         THEN [st EXCEPT !.cleaned_chars = Append(@, c)]
         ELSE IF IsControl(c)
         THEN st
         ELSE [st EXCEPT !.cleaned_chars = Append(@, c)]

\* One turn of the loop of lines 74-110 on character c (34 is the quote,
\* 92 the backslash, 32/9/10/13 are space, tab, line feed, carriage return).
CleanChar(st, c) ==
    IF st.in_string
    THEN IF st.escaped
         THEN [st EXCEPT !.cleaned_chars = Append(@, c), !.escaped = FALSE]
         ELSE IF c = 92
         THEN [st EXCEPT !.cleaned_chars = Append(@, c), !.escaped = TRUE]
         ELSE IF c = 34
         THEN [st EXCEPT !.cleaned_chars = Append(@, c), !.in_string = FALSE]
         ELSE IF IsControl(c)
         THEN st
         ELSE [st EXCEPT !.cleaned_chars = Append(@, c)]
    ELSE IF c = 34
         THEN [st EXCEPT !.cleaned_chars = Append(@, c), !.in_string = TRUE]
         ELSE IF c \in {32, 9, 10, 13}
         THEN [st EXCEPT !.cleaned_chars = Append(@, c)]
         ELSE IF IsControl(c)
         THEN st
         ELSE [st EXCEPT !.cleaned_chars = Append(@, c)]

\* The loop's state after the first n characters of s.
RECURSIVE CleanScan(_, _)
CleanScan(s, n) ==
    IF n = 0 THEN CleanStart ELSE CleanChar(CleanScan(s, n - 1), s[n])

robust_json_clean_string(s) == CleanScan(s, Len(s)).cleaned_chars

\* The characters the texts are made of: quote, backslash, a letter, a C0
\* control character, tab, and a C1 control character.
CleanAlphabet == {34, 92, 97, 1, 9, 150}

CleanTexts == UNION {[1..n -> CleanAlphabet] : n \in 0..MaxText}

CIdle ==
    /\ text_content = <<>>
    /\ cleaned = <<>>

CInit ==
    /\ text_content \in CleanTexts
    /\ cleaned = <<>>

\* One call of _robust_json_clean_string(text_content).
RobustJsonCleanString ==
    /\ cleaned = <<>>
    /\ cleaned' = <<robust_json_clean_string(text_content)>>
    /\ UNCHANGED text_content

(***************************************************************************)
(*              malformedjsonfinder.py : _learn_item_data                  *)
(*                                                                         *)
(* A file of the corpus is described by whether json.loads accepts it and  *)
(* by the sequence of its items; an item holds its four metadata fields,   *)
(* each <<>> (absent or no string) or <<string>>.                          *)
(***************************************************************************)

MaxCorpus == 2

\* Lines 8-15 for code points up to 255: char.isprintable() or char.isspace().
IsPrintableOrSpace(c) ==
    ~(\/ (0 <= c /\ c <= 8)
      \/ (14 <= c /\ c <= 27)
      \/ (127 <= c /\ c <= 132)
      \/ (134 <= c /\ c <= 159)
      \/ c = 173)

finder_is_printable_ascii(str) == \A i \in 1..Len(str) : IsPrintableOrSpace(str[i])

\* Lines 39-41: the three fields are non-empty strings.
IsNonEmptyString(field) == field # <<>> /\ field[1] # <<>>

\* Lines 39-46: the item passes the validation and the character test.
Accepted(item) ==
    /\ IsNonEmptyString(item.itemCd)
    /\ IsNonEmptyString(item.itemClsCd)
    /\ IsNonEmptyString(item.itemNm)
    /\ finder_is_printable_ascii(item.itemCd[1])
    /\ finder_is_printable_ascii(item.itemClsCd[1])

\* Lines 49-54.
Entry(item) ==
    [itemCd |-> item.itemCd[1], itemClsCd |-> item.itemClsCd[1],
     itemNm |-> item.itemNm[1], bcd |-> Get(item.bcd, <<>>)]

\* One turn of the loop of lines 33-54.
LearnItem(known, item) ==
    IF Accepted(item)
    THEN IF \/ known[item.itemCd[1]] = <<>>
            \/ known[item.itemCd[1]][1].itemClsCd # item.itemClsCd[1]
         THEN [known EXCEPT ![item.itemCd[1]] = <<Entry(item)>>]
         ELSE known
    ELSE known

RECURSIVE LearnItems(_, _, _)
LearnItems(known, items, n) ==
    IF n = 0 THEN known ELSE LearnItem(LearnItems(known, items, n - 1), items[n])

\* Lines 17-58: the table after _learn_item_data(file_path).
learn_item_data(known, f) ==
    IF ~f.parses THEN known ELSE LearnItems(known, f.itemList, Len(f.itemList))

\* The item code "X" followed by the control character 0x01.
GarbageCd == <<88, 1>>

LearnCodes == {OrdinaryCd, GarbageCd}

\* Items of the ordinary code with two class codes, a name that is "N", "M"
\* or empty, a bcd that is absent or "1"; and one item of the garbage code.
LearnItemChoices ==
    { [itemCd |-> <<OrdinaryCd>>, itemClsCd |-> <<cls>>, itemNm |-> <<nm>>, bcd |-> b] :
        cls \in {<<53>>, <<54>>}, nm \in {<<78>>, <<77>>, <<>>}, b \in {<<>>, << <<49>> >>} }
    \cup { [itemCd |-> <<GarbageCd>>, itemClsCd |-> << <<53>> >>, itemNm |-> << <<78>> >>,
            bcd |-> <<>>] }

CorpusFileChoices ==
    { [parses |-> FALSE, itemList |-> <<>>] }
    \cup { [parses |-> TRUE, itemList |-> l] : l \in SeqsUpTo(LearnItemChoices, MaxItems) }

LIdle ==
    /\ corpus = <<>>
    /\ learned = 0
    /\ KNOWN_ITEM_DATA = [cd \in LearnCodes |-> <<>>]

\* Line 6: the table is empty when the learning pass starts.
LInit ==
    /\ corpus \in SeqsUpTo(CorpusFileChoices, MaxCorpus)
    /\ learned = 0
    /\ KNOWN_ITEM_DATA = [cd \in LearnCodes |-> <<>>]

\* One turn of the loop of lines 162-168: _learn_item_data on the next file.
LearnFile ==
    /\ learned < Len(corpus)
    /\ KNOWN_ITEM_DATA' = learn_item_data(KNOWN_ITEM_DATA, corpus[learned + 1])
    /\ learned' = learned + 1
    /\ UNCHANGED corpus

(***************************************************************************)
(*                emptyoodcorrector.py : correct_end_files                 *)
(*                                                                         *)
(* A date is a day number (the source holds ISO dates and adds one day     *)
(* with timedelta).  Every invoice is worth 0.07 = 0.06 + 0.01, and the    *)
(* highest invoice number of a day with invoices is 10 times the day.      *)
(* An End file is empty, malformed, or holds a summary; the summary fields *)
(* of an empty or malformed file are all 0.                                *)
(***************************************************************************)

MaxEndFiles == 3

Days == 1..MaxDates

\* Lines 61-65 summed over the invoices of a day (line 128 for a day without).
DailyInv(data, day) ==
    LET n == IF day \in DOMAIN data THEN data[day] ELSE 0
    IN  [TotalTaxableAmount |-> 6 * n, TotalTaxAmount |-> n, TotalInvoiceAmount |-> 7 * n,
         InvoiceCount |-> n, MaxInvoiceNum |-> IF n > 0 THEN 10 * day ELSE 0]

\* Lines 84-93: the highest invoice number of the latest day with invoices
\* that is not after the target day.
RECURSIVE get_last_invoice_num(_, _)
get_last_invoice_num(data, target) ==
    IF target < 1 THEN 0
    ELSE IF target \in DOMAIN data /\ data[target] > 0
         THEN DailyInv(data, target).MaxInvoiceNum
         ELSE get_last_invoice_num(data, target - 1)

\* Lines 161-174: the summary written for a day.
corrected_data(data, eod_date) ==
    LET d == DailyInv(data, eod_date)
    IN  [kind |-> "valid",
         HASH |-> <<"D", eod_date, 0>>,
         DateOfTransmission |-> get_last_invoice_num(data, eod_date),
         DateOfEODSummary |-> eod_date,
         NumberOfInvoicesSentOfTheDay |-> d.InvoiceCount,
         TotalTaxableAmountOfTheDay |-> d.TotalTaxableAmount,
         TotalTaxAmountOfTheDay |-> d.TotalTaxAmount,
         TotalInoviceAmountOfTheDay |-> d.TotalInvoiceAmount]

\* Lines 138-158.
correction_needed(data, f, eod_date) ==
    LET d == DailyInv(data, eod_date)
    IN  \/ f.kind # "valid"
        \/ f.TotalTaxableAmountOfTheDay # d.TotalTaxableAmount
        \/ f.TotalTaxAmountOfTheDay # d.TotalTaxAmount
        \/ f.TotalInoviceAmountOfTheDay # d.TotalInvoiceAmount
        \/ f.NumberOfInvoicesSentOfTheDay # d.InvoiceCount
        \/ f.DateOfTransmission # get_last_invoice_num(data, eod_date)

\* Lines 103-114: last_valid_date after the file was read.
DateAfterRead(f, last) == IF f.kind = "valid" THEN <<f.DateOfEODSummary>> ELSE last

\* Lines 117-125: last_valid_date after the date of the file was determined.
DateAfterInfer(f, last) ==
    IF f.kind # "valid" /\ last # <<>> THEN <<last[1] + 1>> ELSE DateAfterRead(f, last)

BlankFile(kind) ==
    [kind |-> kind, HASH |-> <<"D", 0, 0>>, DateOfTransmission |-> 0, DateOfEODSummary |-> 0,
     NumberOfInvoicesSentOfTheDay |-> 0, TotalTaxableAmountOfTheDay |-> 0,
     TotalTaxAmountOfTheDay |-> 0, TotalInoviceAmountOfTheDay |-> 0]

\* A summary of the device for a day: n invoices, transmission number t.
DeviceSummary(day, n, t) ==
    [kind |-> "valid", HASH |-> <<"D", day, n>>, DateOfTransmission |-> t,
     DateOfEODSummary |-> day, NumberOfInvoicesSentOfTheDay |-> n,
     TotalTaxableAmountOfTheDay |-> 6 * n, TotalTaxAmountOfTheDay |-> n,
     TotalInoviceAmountOfTheDay |-> 7 * n]

EndFileChoices ==
    { BlankFile("empty"), BlankFile("malformed") }
    \cup UNION { { DeviceSummary(day, n, t) : n \in {0, 1}, t \in {0, 10 * day} } :
                  day \in Days }

EIdle ==
    /\ inv_daily_data = <<>>
    /\ end_files = <<>>
    /\ end_files_before = <<>>
    /\ epos = 0
    /\ last_valid_date = <<>>

\* Lines 80-82 after the Inv files were read (lines 48-67).
EInit ==
    /\ inv_daily_data \in [Days -> {0, 1, 2}]
    /\ end_files \in SeqsUpTo(EndFileChoices, MaxEndFiles)
    /\ end_files_before = end_files
    /\ epos = 0
    /\ last_valid_date = <<>>

\* One turn of the loop of lines 95-182 on the next End file.
ProcessEndFile ==
    /\ epos < Len(end_files)
    /\ LET f == end_files[epos + 1]
           last == DateAfterInfer(f, last_valid_date)
       IN  /\ last_valid_date' = last
           /\ end_files' =
                 IF last # <<>> /\ correction_needed(inv_daily_data, f, last[1])
                 THEN [end_files EXCEPT ![epos + 1] = corrected_data(inv_daily_data, last[1])]
                 ELSE end_files
    /\ epos' = epos + 1
    /\ UNCHANGED <<inv_daily_data, end_files_before>>

(***************************************************************************)
(*     fc4_old_eod_generator_based_on_inv.py : generate_and_save_eods      *)
(*                                                                         *)
(* Dates are day numbers, every invoice is worth 0.07 = 0.06 + 0.01.  The  *)
(* End folder maps a file number to the summary stored under it.           *)
(***************************************************************************)

MaxRestarts == 1

FileNumbers == 1..MaxDates

\* Line 75.
all_invoice_dates(inv) == { d \in DOMAIN inv : inv[d] > 0 }

MinOf(S) == CHOOSE x \in S : \A y \in S : x <= y
MaxOf(S) == CHOOSE x \in S : \A y \in S : y <= x

\* Lines 82-92.
start_date(inv, initial) ==
    IF initial # <<>> THEN initial[1].DateOfEODSummary ELSE MinOf(all_invoice_dates(inv))

\* Line 94.
end_date(inv) == MaxOf(all_invoice_dates(inv))

\* Line 95: the number of days of date_range, and its i-th day (i from 0).
RangeLen(inv, initial) ==
    IF end_date(inv) >= start_date(inv, initial)
    THEN end_date(inv) - start_date(inv, initial) + 1
    ELSE 0

date_range(inv, initial, i) == start_date(inv, initial) + i

\* Lines 114-149: the summary generated for a day.
new_eod_full_data(inv, day, tn) ==
    LET n == IF day \in DOMAIN inv THEN inv[day] ELSE 0
    IN  [HASH |-> <<"D", day, n>>,
         DateOfTransmission |-> tn,
         DateOfEODSummary |-> day,
         NumberOfInvoicesSentOfTheDay |-> n,
         TotalTaxableAmountOfTheDay |-> 6 * n,
         TotalTaxAmountOfTheDay |-> n,
         TotalInoviceAmountOfTheDay |-> 7 * n]

\* A summary left in the End folder by the device.
OldSummary(day) ==
    [HASH |-> <<"D", day, 0>>, DateOfTransmission |-> 0, DateOfEODSummary |-> day,
     NumberOfInvoicesSentOfTheDay |-> 0, TotalTaxableAmountOfTheDay |-> 0,
     TotalTaxAmountOfTheDay |-> 0, TotalInoviceAmountOfTheDay |-> 0]

\* End folders: 1.txt is absent or the summary of some day, a later file is
\* absent or the summary of the day of its number.
FolderChoices ==
    { f \in [FileNumbers -> {<<>>} \cup { <<OldSummary(d)>> : d \in 1..MaxDates }] :
        \A n \in FileNumbers : (n > 1 /\ f[n] # <<>>) => f[n][1].DateOfEODSummary = n }

GIdle ==
    /\ invoices_by_date = <<>>
    /\ eod_folder = <<>>
    /\ eod_folder_before = <<>>
    /\ initial_eod_data = <<>>
    /\ gi = 0
    /\ g_last_transmission_number = 0
    /\ gpc = "idle"
    /\ restarts = 0

GInit ==
    /\ invoices_by_date \in [1..MaxDates -> 0..MaxReceipts]
    /\ eod_folder \in FolderChoices
    /\ eod_folder_before = eod_folder
    /\ initial_eod_data = <<>>
    /\ gi = 0
    /\ g_last_transmission_number = 0
    /\ gpc = "collect"
    /\ restarts = 0

\* Lines 16-68 and 189-199, 75-95: the data is collected; without invoice
\* dates the run ends there.
Collect ==
    /\ gpc = "collect"
    /\ initial_eod_data' = eod_folder[1]
    /\ gpc' = IF all_invoice_dates(invoices_by_date) = {} THEN "done" ELSE "delete"
    /\ UNCHANGED <<invoices_by_date, eod_folder, eod_folder_before, gi,
                   g_last_transmission_number, restarts>>

\* Lines 99-104: one old file is removed.
DeleteOld ==
    /\ gpc = "delete"
    /\ \E n \in FileNumbers :
          /\ eod_folder[n] # <<>>
          /\ eod_folder' = [eod_folder EXCEPT ![n] = <<>>]
    /\ UNCHANGED <<invoices_by_date, eod_folder_before, initial_eod_data, gi,
                   g_last_transmission_number, gpc, restarts>>

\* Lines 105-110: no old file is left, the generation starts.
StartGenerate ==
    /\ gpc = "delete"
    /\ \A n \in FileNumbers : eod_folder[n] = <<>>
    /\ gi' = 0
    /\ g_last_transmission_number' = 0
    /\ gpc' = "generate"
    /\ UNCHANGED <<invoices_by_date, eod_folder, eod_folder_before, initial_eod_data,
                   restarts>>

\* One turn of the loop of lines 112-172: the summary of day i is written
\* to file i + 1.
GenerateOne ==
    /\ gpc = "generate"
    /\ gi < RangeLen(invoices_by_date, initial_eod_data)
    /\ LET day == date_range(invoices_by_date, initial_eod_data, gi)
           n == IF day \in DOMAIN invoices_by_date THEN invoices_by_date[day] ELSE 0
           tn == IF gi = 0 THEN n ELSE g_last_transmission_number + n
       IN  /\ eod_folder' = [eod_folder EXCEPT
                                ![gi + 1] = <<new_eod_full_data(invoices_by_date, day, tn)>>]
           /\ g_last_transmission_number' = tn
    /\ gi' = gi + 1
    /\ UNCHANGED <<invoices_by_date, eod_folder_before, initial_eod_data, gpc, restarts>>

\* Line 174: the loop is over.
GFinish ==
    /\ gpc = "generate"
    /\ gi = RangeLen(invoices_by_date, initial_eod_data)
    /\ gpc' = "done"
    /\ UNCHANGED <<invoices_by_date, eod_folder, eod_folder_before, initial_eod_data, gi,
                   g_last_transmission_number, restarts>>

\* The process is ended between two file operations and the script is run
\* again on the folder as it stands.
Rerun ==
    /\ gpc \in {"delete", "generate"}
    /\ restarts < MaxRestarts
    /\ restarts' = restarts + 1
    /\ gpc' = "collect"
    /\ initial_eod_data' = <<>>
    /\ gi' = 0
    /\ g_last_transmission_number' = 0
    /\ UNCHANGED <<invoices_by_date, eod_folder, eod_folder_before>>

GNext == Collect \/ DeleteOld \/ StartGenerate \/ GenerateOne \/ GFinish \/ Rerun

(***************************************************************************)
(*             receiptNo_reset_fixer.py : find_and_fix_reset               *)
(*                                                                         *)
(* An invoice file is <<n>> when it holds receipt.totRcptNo = n, and <<>>  *)
(* when it cannot be decoded or holds no such key.                         *)
(***************************************************************************)

MaxRcptFiles == 3
MaxRcptNo == 3

\* Lines 46-67: the file and the running value after one file was handled.
fix_reset_step(f, last) ==
    IF f = <<>> THEN [file |-> f, last |-> last]
    ELSE IF last = -1 THEN [file |-> f, last |-> f[1]]
    ELSE IF f[1] # last + 1 /\ f[1] < last
         THEN [file |-> <<last + f[1] + 1>>, last |-> last + f[1] + 1]
         ELSE [file |-> f, last |-> f[1]]

NIdle ==
    /\ inv_new_files = <<>>
    /\ inv_new_before = <<>>
    /\ npos = 0
    /\ last_valid_tot_rcpt_no = -1

\* Lines 17-30.
NInit ==
    /\ inv_new_files \in SeqsUpTo({<<>>} \cup { <<n>> : n \in 0..MaxRcptNo }, MaxRcptFiles)
    /\ inv_new_before = inv_new_files
    /\ npos = 0
    /\ last_valid_tot_rcpt_no = -1

\* One turn of the loop of lines 34-67.
ProcessInvoiceFile ==
    /\ npos < Len(inv_new_files)
    /\ LET r == fix_reset_step(inv_new_files[npos + 1], last_valid_tot_rcpt_no)
       IN  /\ inv_new_files' = [inv_new_files EXCEPT ![npos + 1] = r.file]
           /\ last_valid_tot_rcpt_no' = r.last
    /\ npos' = npos + 1
    /\ UNCHANGED inv_new_before

(***************************************************************************)
(* Specifications.                                                         *)
(***************************************************************************)

\* generate_corrected_eod over a backup directory.
Init == RInit /\ FIdle /\ SIdle /\ CIdle /\ LIdle /\ EIdle /\ GIdle /\ NIdle
Next == RNext /\ UNCHANGED <<fvars, svars, cvars, lvars, evars, gvars, nvars>>
Spec == Init /\ [][Next]_vars

\* generate_corrected_eod over a backup directory with malformed files.
InitMalformed == RInitMalformed /\ FIdle /\ SIdle /\ CIdle /\ LIdle /\ EIdle /\ GIdle /\ NIdle
SpecMalformed == InitMalformed /\ [][Next]_vars

\* generate_corrected_eod when writes to the End folder can fail.
NextWriteFail == (RNext \/ WriteFails) /\ UNCHANGED <<fvars, svars, cvars, lvars, evars, gvars, nvars>>
SpecWriteFail == Init /\ [][NextWriteFail]_vars

\* fix_json_file called on one file, then again on what it left.
InitFix == RIdle /\ FInit /\ SIdle /\ CIdle /\ LIdle /\ EIdle /\ GIdle /\ NIdle
NextFix == FixJsonFile /\ UNCHANGED <<rvars, svars, cvars, lvars, evars, gvars, nvars>>
SpecFix == InitFix /\ [][NextFix]_vars

\* fix_json_file on files whose items differ in itemSeq, itemCd and bcd.
InitFixMeta == RIdle /\ FInitMeta /\ SIdle /\ CIdle /\ LIdle /\ EIdle /\ GIdle /\ NIdle
SpecFixMeta == InitFixMeta /\ [][NextFix]_vars

\* _attempt_structural_fix_and_parse called on one text.
InitStruct == RIdle /\ FIdle /\ SInit /\ CIdle /\ LIdle /\ EIdle /\ GIdle /\ NIdle
NextStruct == AttemptStructuralFix /\ UNCHANGED <<rvars, fvars, cvars, lvars, evars, gvars, nvars>>
SpecStruct == InitStruct /\ [][NextStruct]_vars

\* _robust_json_clean_string called on one text.
InitClean == RIdle /\ FIdle /\ SIdle /\ CInit /\ LIdle /\ EIdle /\ GIdle /\ NIdle
NextClean == RobustJsonCleanString /\ UNCHANGED <<rvars, fvars, svars, lvars, evars, gvars, nvars>>
SpecClean == InitClean /\ [][NextClean]_vars

\* The learning pass of malformedjsonfinder.py over a corpus.
InitLearn == RIdle /\ FIdle /\ SIdle /\ CIdle /\ LInit /\ EIdle /\ GIdle /\ NIdle
NextLearn == LearnFile /\ UNCHANGED <<rvars, fvars, svars, cvars, evars, gvars, nvars>>
SpecLearn == InitLearn /\ [][NextLearn]_vars

\* correct_end_files of emptyoodcorrector.py over a JSON folder.
InitEnd == RIdle /\ FIdle /\ SIdle /\ CIdle /\ LIdle /\ EInit /\ GIdle /\ NIdle
NextEnd == ProcessEndFile /\ UNCHANGED <<rvars, fvars, svars, cvars, lvars, gvars, nvars>>
SpecEnd == InitEnd /\ [][NextEnd]_vars

\* generate_and_save_eods over a backup directory, with interrupted runs.
InitGen == RIdle /\ FIdle /\ SIdle /\ CIdle /\ LIdle /\ EIdle /\ GInit /\ NIdle
NextGen == GNext /\ UNCHANGED <<rvars, fvars, svars, cvars, lvars, evars, nvars>>
SpecGen == InitGen /\ [][NextGen]_vars

\* find_and_fix_reset over an Inv_New folder.
InitReset == RIdle /\ FIdle /\ SIdle /\ CIdle /\ LIdle /\ EIdle /\ GIdle /\ NInit
NextReset == ProcessInvoiceFile /\ UNCHANGED <<rvars, fvars, svars, cvars, lvars, evars, gvars>>
SpecReset == InitReset /\ [][NextReset]_vars

(***************************************************************************)
(*                 Claims on generate_corrected_eod                        *)
(***************************************************************************)

HasEod(d) == eod_reports_by_date[d] # <<>>
StoredHeader(d) == eodFiles[d][1].EODSummaryHeader

\* Two dates that follow each other in sorted_dates and both have a summary.
ConsecutiveWithEod(i) ==
    /\ i \in 1..(Len(sorted_dates) - 1)
    /\ HasEod(sorted_dates[i])
    /\ HasEod(sorted_dates[i + 1])

C2_SummaryEqualsSums ==
    rpc = "done" =>
        \A d \in Dates : HasEod(d) =>
            /\ StoredHeader(d).NumberOfInvoicesSentOfTheDay = Len(receipts_by_date[d])
            /\ StoredHeader(d).TotalTaxableAmountOfTheDay
                 = SumField(receipts_by_date[d], "TotalTaxableAmount")
            /\ StoredHeader(d).TotalTaxAmountOfTheDay
                 = SumField(receipts_by_date[d], "TotalTaxAmount")
            /\ StoredHeader(d).TotalInoviceAmountOfTheDay
                 = SumField(receipts_by_date[d], "TotalInvoiceAmount")

\* The date at position i of the walk has a summary and follows a date that
\* has invoices but no summary.
AfterGap(i) ==
    /\ i >= 2
    /\ i <= Len(sorted_dates)
    /\ ~HasEod(sorted_dates[i - 1])
    /\ HasEod(sorted_dates[i])

\* C13: a date without a summary gets no file, the running transmission
\* number is unset right after it, and at the end of the run the next date
\* with a summary holds the transmission number it had before the run.
C13_GapResetsChain ==
    /\ \A d \in Dates : ~HasEod(d) => (eodFiles[d] = <<>> /\ bakFiles[d] = <<>>)
    /\ (rpc = "loop" /\ idx >= 2 /\ ~HasEod(sorted_dates[idx - 1]))
          => last_transmission_number = <<>>
    /\ rpc = "done" =>
          \A i \in 1..MaxDates : AfterGap(i) =>
              StoredHeader(sorted_dates[i]).DateOfTransmission
                = original_transmission_number(sorted_dates[i])

\* C13 witness: a finished run over a date with a summary, then a date with
\* an invoice and no summary, then a date whose summary was rewritten and
\* whose number is not the one chaining over the gap would give.
C13_Witness ==
    /\ rpc = "done"
    /\ \E i \in 3..MaxDates :
          /\ AfterGap(i)
          /\ HasEod(sorted_dates[i - 2])
          /\ eodFiles[sorted_dates[i]] # eod_reports_by_date[sorted_dates[i]]
          /\ StoredHeader(sorted_dates[i]).DateOfTransmission
               # StoredHeader(sorted_dates[i - 2]).DateOfTransmission
                 + Len(receipts_by_date[sorted_dates[i]])

\* C25 (as stated): after the run the stored transmission numbers of the
\* dates that have a summary do not decrease with the date.
C25_TransmissionMonotone ==
    rpc = "done" =>
        \A d1, d2 \in Dates :
            (d1 < d2 /\ HasEod(d1) /\ HasEod(d2)) =>
                StoredHeader(d1).DateOfTransmission <= StoredHeader(d2).DateOfTransmission

\* The date at position i of the walk opens a chain: it has a summary and is
\* the first date or follows a date without a summary.
OpensChain(i) ==
    /\ i \in 1..Len(sorted_dates)
    /\ HasEod(sorted_dates[i])
    /\ (i = 1 \/ ~HasEod(sorted_dates[i - 1]))

\* C27: a date that opens a chain keeps the transmission number of its
\* summary; every other date with a summary gets the number now stored for
\* the date before it plus its own recomputed invoice count; and whenever
\* the walk has left a date with a summary, the running value is the number
\* stored for that date.
C27_TransmissionChain ==
    /\ rpc = "done" =>
          \A i \in 1..Len(sorted_dates) :
              HasEod(sorted_dates[i]) =>
                  StoredHeader(sorted_dates[i]).DateOfTransmission
                    = IF OpensChain(i)
                      THEN original_transmission_number(sorted_dates[i])
                      ELSE StoredHeader(sorted_dates[i - 1]).DateOfTransmission
                           + correct_invoice_count(sorted_dates[i])
    /\ (rpc = "loop" /\ idx >= 2 /\ HasEod(sorted_dates[idx - 1])) =>
          last_transmission_number
            = <<StoredHeader(sorted_dates[idx - 1]).DateOfTransmission>>

\* C27 witness: a finished run over three dates with a summary in which the
\* second date got a new number and the third, which has an invoice, was
\* numbered from it.
C27_Witness ==
    /\ rpc = "done"
    /\ Len(sorted_dates) >= 3
    /\ \A i \in 1..3 : HasEod(sorted_dates[i])
    /\ StoredHeader(sorted_dates[2]).DateOfTransmission
         # original_transmission_number(sorted_dates[2])
    /\ correct_invoice_count(sorted_dates[3]) > 0
    /\ StoredHeader(sorted_dates[3]).DateOfTransmission
         # original_transmission_number(sorted_dates[3])
    /\ StoredHeader(sorted_dates[3]).DateOfTransmission
         = StoredHeader(sorted_dates[2]).DateOfTransmission
           + correct_invoice_count(sorted_dates[3])

\* C29 (as stated): at every point of the run the original content of every
\* summary is in the summary file or in its .bak copy.
C29_OriginalNeverLost ==
    \A d \in Dates :
        HasEod(d) => (eodFiles[d] = eod_reports_by_date[d]
                      \/ bakFiles[d] = eod_reports_by_date[d])

\* The End file of date d holds corrected content that was written in full.
CorrectedWritten(d) ==
    /\ eodFiles[d] # <<>>
    /\ eodFiles[d][1]
         = corrected_eod_full_data(d, eodFiles[d][1].EODSummaryHeader.DateOfTransmission)

\* C29 (amended): until the corrected content of a summary has been written
\* in full, its original content is in the summary file or in its .bak copy;
\* a backup is only ever absent while the file holds the original or the
\* corrected content.
C29_OriginalKeptUntilWritten ==
    \A d \in Dates :
        HasEod(d) => \/ eodFiles[d] = eod_reports_by_date[d]
                     \/ bakFiles[d] = eod_reports_by_date[d]
                     \/ (CorrectedWritten(d) /\ bakFiles[d] = <<>>)

\* C29 witness: the run is over, the write of one summary failed, and its
\* original content is in the .bak copy.
C29_Witness ==
    /\ rpc = "done"
    /\ \E d \in Dates :
          /\ HasEod(d)
          /\ eodFiles[d] = <<PartialFile>>
          /\ bakFiles[d] = eod_reports_by_date[d]

\* C11 (as stated): an invoice whose amount is not a number does not abort
\* the run: with well-formed summaries the run never ends in an exception.
C11_NonNumericAmountNotFatal ==
    (\A d \in Dates : HasEod(d) => original_eod_header(d).TransmissionIsNumber)
        => rpc # "raised"

\* C12 (as stated): a summary file whose DateOfTransmission is not
\* well-formed does not abort the run: with numeric invoices the run never
\* ends in an exception.
C12_BadSummaryNotFatal ==
    (\A d \in Dates : ReceiptsAreNumeric(d)) => rpc # "raised"

(***************************************************************************)
(*                        Claims on fix_json_file                          *)
(***************************************************************************)

\* The last call wrote the file: file is the record it wrote.
Written == runs >= 1 /\ result = "True"

Items(f) == Get(f.itemList, <<>>)

\* The sum of a stored amount over the items of a list.
SumStored(items, k) == SumSeq([i \in 1..Len(items) |-> Get(items[i][k], 0)])

\* The sums of the recomputed amounts over the items with a numeric,
\* non-negative prc and qty.
RecomputedSum(items, k) ==
    SumSeq([i \in 1..Len(items) |->
              LET prc == Get(items[i].prc, Num(0))
                  qty == Get(items[i].qty, Num(0))
              IN  IF ValidPrcQty(prc, qty)
                  THEN ItemCalc(prc, qty, Get(items[i].taxTyCd, "B"))[k]
                  ELSE 0])

\* C3 (as stated): a call that does not take the fast path reports
\* "modified" (it writes the file and returns True) and leaves the top-level
\* totItemCnt, totTaxblAmt, totTaxAmt, totAmt within 0.01 of the sums over
\* the items.
C3_NonFastPathRewrites ==
    (runs >= 1 /\ path = "full") =>
        /\ result = "True"
        /\ file.top.totItemCnt = <<Len(Items(file))>>
        /\ Abs(Get(file.top.totTaxblAmt, 0) - RecomputedSum(Items(file), "taxbl")) <= Tolerance
        /\ Abs(Get(file.top.totTaxAmt, 0) - RecomputedSum(Items(file), "tax")) <= Tolerance
        /\ Abs(Get(file.top.totAmt, 0) - RecomputedSum(Items(file), "tot")) <= Tolerance

\* C4 (as stated): a second call on the file the first call left writes
\* nothing and returns False.
C4_Idempotent ==
    (runs >= 2 /\ result # "raised") => (result = "False" /\ file = prevFile)

\* A float difference below 0.01 between two amounts given in cents.
C5_Below(a, b) == a = b \/ (Abs(a - b) = 1 /\ fp = "below")

\* The count and the totals of f agree with the values recomputed from its items.
C5_Agrees(f) ==
    /\ f.parse = "object"
    /\ f.top.totItemCnt = <<Len(Items(f))>>
    /\ C5_Below(Get(f.top.totTaxblAmt, 0), RecomputedSum(Items(f), "taxbl"))
    /\ C5_Below(Get(f.top.totTaxAmt, 0), RecomputedSum(Items(f), "tax"))
    /\ C5_Below(Get(f.top.totAmt, 0), RecomputedSum(Items(f), "tot"))

\* C5 (as stated): on a file that is valid JSON and logically consistent the
\* call returns False and leaves the bytes unchanged.
C5_NoWriteOnHealthy ==
    (runs >= 1 /\ prevFile.ctrl \in {"none", "high"} /\ C5_Agrees(prevFile)) =>
        (result = "False" /\ file = prevFile)

\* C5 (amended): on a file that holds no character the sanitizer removes,
\* parses to a JSON object and is logically consistent, the call returns
\* False and leaves the bytes unchanged.
C5_NoWriteOnCleanHealthy ==
    (runs >= 1 /\ prevFile.ctrl = "none" /\ C5_Agrees(prevFile)) =>
        (result = "False" /\ file = prevFile)

\* C5 witness: the first call met a clean, consistent file with two items
\* and an empty receipt, and left it alone.
C5_Witness ==
    /\ runs = 1
    /\ prevFile.ctrl = "none"
    /\ C5_Agrees(prevFile)
    /\ Len(Items(prevFile)) = 2
    /\ prevFile.receipt = "empty"
    /\ result = "False"
    /\ file = prevFile

\* C6 (as stated): in every record written, totItemCnt is the length of
\* itemList and each of totTaxblAmt, totTaxAmt, totAmt is within 0.01 of the
\* sum of the stored taxblAmt, taxAmt, totAmt of the items.
C6_AggregatesMatchStored ==
    Written =>
        /\ file.top.totItemCnt = <<Len(Items(file))>>
        /\ Abs(Get(file.top.totTaxblAmt, 0) - SumStored(Items(file), "taxblAmt")) <= Tolerance
        /\ Abs(Get(file.top.totTaxAmt, 0) - SumStored(Items(file), "taxAmt")) <= Tolerance
        /\ Abs(Get(file.top.totAmt, 0) - SumStored(Items(file), "totAmt")) <= Tolerance

\* C7 (as stated): in every record written, every item of tax type B has
\* abs(taxAmt - round(totAmt - totAmt/1.16, 2)) < 0.01 on its stored fields.
C7_TaxOfBItems ==
    Written =>
        \A i \in 1..Len(Items(file)) :
            LET item == Items(file)[i]
            IN  Get(item.taxTyCd, "") = "B" =>
                  C5_Below(Get(item.taxAmt, 0),
                           Get(item.totAmt, 0) - RoundTaxable(Get(item.totAmt, 0)))

\* What the stages before step 3 made of the file the last call read.
BeforeStep3(f) == Step2_7(f, StepReceipt(f, Step2_6(f, Step2(f, Step1(f)))))

\* The last call met a character-corruption or structural-repair event.
CorruptionEvent(f) ==
    \/ f.ctrl # "none"
    \/ f.parse # "object"
    \/ BeforeStep3(f).had_char_corruption_issue

\* The four fields the cross-reference correction sets.
Metadata(item) ==
    <<Get(item.itemCd, <<>>), Get(item.itemClsCd, <<>>),
      Get(item.itemNm, <<>>), Get(item.bcd, <<>>)>>

\* C14 (as stated): in a call without a character-corruption or
\* structural-repair event, every item of the written record has the
\* itemCd, itemClsCd, itemNm and bcd it had before step 3.
C14_CorrectionGated ==
    (Written /\ ~CorruptionEvent(prevFile)) =>
        LET before == BeforeStep3(prevFile).data.itemList[1]
        IN  /\ Len(Items(file)) = Len(before)
            /\ \A i \in 1..Len(before) :
                  Metadata(Items(file)[i]) = Metadata(before[i])

\* str.isalnum() on ASCII text: digits and letters only, and not empty.
IsAlnum(str) ==
    /\ str # <<>>
    /\ \A i \in 1..Len(str) :
          \/ (48 <= str[i] /\ str[i] <= 57)
          \/ (65 <= str[i] /\ str[i] <= 90)
          \/ (97 <= str[i] /\ str[i] <= 122)

\* C15 (as stated): in every record written, the bcd of an item is purely
\* alphanumeric or the empty string.
C15_BcdAlnumOrEmpty ==
    Written =>
        \A i \in 1..Len(Items(file)) :
            LET bcd == Get(Items(file)[i].bcd, <<>>)
            IN  bcd = <<>> \/ IsAlnum(bcd)

\* C16 (as stated): every record written holds every expected top-level
\* key; a receipt found nowhere is {}, and an item list of which the text
\* holds no item is [].
C16_DefaultsApplied ==
    Written =>
        /\ \A k \in DOMAIN file.top : file.top[k] # <<>>
        /\ file.other
        /\ file.receipt # "absent"
        /\ file.itemList # <<>>
        /\ (prevFile.receipt = "absent" => file.receipt = "empty")
        /\ (Items(prevFile) = <<>> => Items(file) = <<>>)

\* C17 (as stated): no two items of a written record have the same
\* (itemSeq, itemCd) pair.
C17_NoDuplicateItems ==
    Written =>
        \A i, j \in 1..Len(Items(file)) :
            i < j => item_id(Items(file)[i]) # item_id(Items(file)[j])

\* C18 (as stated): when no item of the parsed record has an itemSeq, every
\* item is kept (here: with its prc and qty) and gets its 1-based position
\* as itemSeq.
C18_ItemsWithoutSeqKept ==
    (/\ Written
     /\ prevFile.parse = "object"
     /\ Items(prevFile) # <<>>
     /\ \A i \in 1..Len(Items(prevFile)) : ~HasItemSeq(Items(prevFile)[i])) =>
        /\ Len(Items(file)) = Len(Items(prevFile))
        /\ \A i \in 1..Len(Items(prevFile)) :
              /\ Items(file)[i].itemSeq = <<i>>
              /\ Items(file)[i].prc = Items(prevFile)[i].prc
              /\ Items(file)[i].qty = Items(prevFile)[i].qty

\* What the stages of fix_json_file leave for the write step (line 598) on
\* file f, when the call gets past the fast path.
BeforeWrite(f) == Step3(Step2_7(f, StepReceipt(f, Step2_6(f, Step2(f, Step1(f))))))

\* Some stage of the call on f reported a change.
StageReportedChange(f) ==
    /\ FastPathCheck(f, Step1(f).had_char_corruption_issue) \notin {"raise", "skip"}
    /\ BeforeWrite(f).file_modified

C10_NonObjectReturnsNormally ==
    (runs >= 1 /\ prevFile.parse = "nonobject") => result \in {"True", "False"}

(***************************************************************************)
(*             Claims on _attempt_structural_fix_and_parse                 *)
(***************************************************************************)

\* The longest prefix of the text that parses with one of the closings.
LongestParsable(t) ==
    CHOOSE i \in 1..t.len : Parses(t, i) /\ \A j \in (i + 1)..t.len : ~Parses(t, j)

\* C8 (as stated): when the direct parse fails and some prefix parses with a
\* closing, the repair returns the parse of the longest such prefix (the
\* prefix "{" gives the same empty object as the fallback).
C8_LongestPrefix ==
    (/\ repaired # <<>>
     /\ text.direct = "fail"
     /\ \E i \in 1..text.len : Parses(text, i)) =>
        \/ (repaired[1].kind = "prefix" /\ repaired[1].prefixLen = LongestParsable(text))
        \/ (repaired[1].kind = "empty" /\ LongestParsable(text) = 1)

\* C9 (as stated): for any text the structural repair yields a JSON object.
C9_YieldsObject ==
    repaired # <<>> => repaired[1].isObject

(***************************************************************************)
(*                 Claims on _robust_json_clean_string                     *)
(***************************************************************************)

\* C19 (as stated): the sanitized text holds no character of 0x00-0x1F or
\* 0x7F-0x9F.
C19_NoControlCharLeft ==
    cleaned # <<>> => \A i \in 1..Len(cleaned[1]) : ~IsControl(cleaned[1][i])

NotControl(c) == ~IsControl(c)

\* t is s with some of its characters deleted.
RECURSIVE IsSubsequence(_, _)
IsSubsequence(t, s) ==
    IF t = <<>> THEN TRUE
    ELSE IF s = <<>> THEN FALSE
    ELSE IF Head(t) = Head(s) THEN IsSubsequence(Tail(t), Tail(s))
    ELSE IsSubsequence(t, Tail(s))

\* Position i of s holds an unescaped backslash inside a string literal and
\* position i + 1 a quote.
EscapedQuoteAt(s, i) ==
    /\ i + 1 <= Len(s)
    /\ s[i] = 92
    /\ s[i + 1] = 34
    /\ CleanScan(s, i - 1).in_string
    /\ ~CleanScan(s, i - 1).escaped

RECURSIVE ScanOrder(_, _)
ScanOrder(c, n) ==
    IF n = 0 THEN <<>>
    ELSE ScanOrder(c, n - 1) \o (IF c[n].parses THEN c[n].itemList ELSE <<>>)

AcceptedOf(cd) ==
    SelectSeq(ScanOrder(corpus, Len(corpus)),
              LAMBDA item : Accepted(item) /\ item.itemCd[1] = cd)

\* C22 (as stated): after the learning pass, the entry of every item code
\* with an accepted occurrence holds the class code, name and bcd of the
\* last accepted occurrence in scan order.
C22_LastAcceptedLearned ==
    learned = Len(corpus) =>
        \A cd \in LearnCodes :
            AcceptedOf(cd) # <<>> =>
                KNOWN_ITEM_DATA[cd] = <<Entry(AcceptedOf(cd)[Len(AcceptedOf(cd))])>>

(***************************************************************************)
(*                    Claims on correct_end_files                          *)
(***************************************************************************)

\* C23 (as stated), for correct_end_files: the count part of the HASH of a
\* written summary equals the NumberOfInvoicesSentOfTheDay written with it.
C23_HashCarriesCount ==
    [][\A i \in 1..Len(end_files) :
          end_files'[i] # end_files[i] =>
              end_files'[i].HASH[3] = end_files'[i].NumberOfInvoicesSentOfTheDay]_vars

\* C26 (as stated): when the summaries the End files hold before the run
\* have pairwise distinct dates, no two End files hold the same date after
\* the run.
C26_OneFilePerDate ==
    (/\ epos = Len(end_files)
     /\ \A i, j \in 1..Len(end_files_before) :
           (/\ i < j
            /\ end_files_before[i].kind = "valid"
            /\ end_files_before[j].kind = "valid")
               => end_files_before[i].DateOfEODSummary # end_files_before[j].DateOfEODSummary) =>
        \A i, j \in 1..Len(end_files) :
            (i < j /\ end_files[i].kind = "valid" /\ end_files[j].kind = "valid")
                => end_files[i].DateOfEODSummary # end_files[j].DateOfEODSummary

(***************************************************************************)
(*                  Claims on generate_and_save_eods                       *)
(***************************************************************************)

\* The End folder one uninterrupted run leaves, given the folder it started from.
RECURSIVE CumulativeCount(_, _, _)
CumulativeCount(inv, from, to) ==
    IF to < from THEN 0
    ELSE (IF to \in DOMAIN inv THEN inv[to] ELSE 0) + CumulativeCount(inv, from, to - 1)

UninterruptedResult(inv, before) ==
    IF all_invoice_dates(inv) = {} THEN before
    ELSE [n \in FileNumbers |->
            IF n <= RangeLen(inv, before[1])
            THEN LET day == date_range(inv, before[1], n - 1)
                 IN  <<new_eod_full_data(inv, day,
                           CumulativeCount(inv, start_date(inv, before[1]), day))>>
            ELSE <<>>]

\* C24 (as stated), for generate_and_save_eods: a run that was cut off and
\* started again ends with the same summary files as one uninterrupted run.
C24_ResumeGivesSameFiles ==
    gpc = "done" => eod_folder = UninterruptedResult(invoices_by_date, eod_folder_before)

\* C28 (as stated): an uninterrupted regeneration leaves one summary per day
\* from the start date to the last invoice date, numbered in date order, each
\* with the number of invoices of all days up to its own as DateOfTransmission,
\* so that the last one holds the number of all invoices.
C28_CompleteChronologicalSet ==
    (gpc = "done" /\ restarts = 0 /\ all_invoice_dates(invoices_by_date) # {}) =>
        LET len == RangeLen(invoices_by_date, eod_folder_before[1])
        IN  /\ len >= 1
            /\ \A n \in FileNumbers :
                  IF n <= len
                  THEN /\ eod_folder[n] # <<>>
                       /\ eod_folder[n][1].DateOfEODSummary
                             = start_date(invoices_by_date, eod_folder_before[1]) + n - 1
                       /\ eod_folder[n][1].DateOfTransmission
                             = CumulativeCount(invoices_by_date, 1,
                                               eod_folder[n][1].DateOfEODSummary)
                  ELSE eod_folder[n] = <<>>
            /\ eod_folder[len][1].DateOfTransmission
                  = SumSeq([d \in 1..MaxDates |-> invoices_by_date[d]])

(***************************************************************************)
(*                    Claims on find_and_fix_reset                         *)
(***************************************************************************)

\* Before the run the files up to position k - 1 count up by one, file k
\* holds a lower number than file k - 1 (the reset), and file k + 1 the
\* number that follows the one of file k.
ResetBlockAt(k) ==
    /\ k >= 2
    /\ k + 1 <= Len(inv_new_before)
    /\ \A i \in 1..(k + 1) : inv_new_before[i] # <<>>
    /\ \A i \in 2..(k - 1) : inv_new_before[i][1] = inv_new_before[i - 1][1] + 1
    /\ inv_new_before[k][1] < inv_new_before[k - 1][1]
    /\ inv_new_before[k + 1][1] = inv_new_before[k][1] + 1

\* C30 (as stated): after the walk the first file of a reset block holds the
\* last valid number + its own + 1, and the next file of the block exactly
\* one more.
C30_ResetBlockConsecutive ==
    npos = Len(inv_new_files) =>
        \A k \in 1..Len(inv_new_files) :
            ResetBlockAt(k) =>
                /\ inv_new_files[k][1] = inv_new_before[k - 1][1] + inv_new_before[k][1] + 1
                /\ inv_new_files[k + 1][1] = inv_new_files[k][1] + 1

====
